---- MODULE Spec2Model ----
(***************************************************************************)
(* read_lines.py: print a range of lines of a text file.                   *)
(*                                                                         *)
(* A text (a Python str) is a sequence of atoms, each atom a TLA+ string:  *)
(* file data is a sequence of the characters "a" and "\n", an argument is  *)
(* a sequence of characters, a message is built from literal pieces and    *)
(* formatted fields.  sys.argv is modelled whole, the program name at its  *)
(* head, so that sys.argv[k] is argv[k + 1].                               *)
(***************************************************************************)
EXTENDS Integers, Sequences, FiniteSets

VARIABLES
    fs,          \* the file system: path -> [kind, data]
    argv,        \* sys.argv of the running process
    pc,          \* position of the process
    called,      \* number of calls of read_lines made by the process
    filepath,    \* read_lines: parameter
    start_line,  \* read_lines: parameter
    num_lines,   \* read_lines: parameter
    f,           \* read_lines: the file object of the with statement
    lines,       \* read_lines: local
    start_index, \* read_lines: local
    end_index,   \* read_lines: local
    i,           \* read_lines: loop variable
    emitted,     \* history: the 1-indexed file positions printed by the loop
    exc,         \* the exception in flight ("" when none)
    stdout,      \* what the process has written to standard output
    status,      \* "running", "0" (normal exit) or the uncaught exception
    run,         \* number of the invocation in the session
    prev         \* the previous invocation of the session

vars == <<fs, argv, pc, called, filepath, start_line, num_lines, f, lines,
          start_index, end_index, i, emitted, exc, stdout, status, run, prev>>

locals == <<filepath, start_line, num_lines, lines, start_index, end_index>>

-----------------------------------------------------------------------------
(* Bounds of the model *)

MaxFileLen == 4      \* characters of the regular file
MaxExtra == 1        \* command-line arguments after the third
MaxRuns == 2         \* invocations of the program in one session

-----------------------------------------------------------------------------
(* Texts *)

FileChars == {"a", "\n"}

Texts(alphabet, n) == UNION {[1..k -> alphabet] : k \in 0..n}

RECURSIVE Flatten(_)
Flatten(ss) == IF ss = <<>> THEN <<>> ELSE Head(ss) \o Flatten(Tail(ss))

Min(a, b) == IF a < b THEN a ELSE b

DigitChars == <<"0", "1", "2", "3", "4", "5", "6", "7", "8", "9">>

DigitValue(c) == CHOOSE d \in 0..9 : DigitChars[d + 1] = c

IsDigit(c) == \E d \in 0..9 : DigitChars[d + 1] = c

RECURSIVE Digits(_)
Digits(n) ==
    IF n < 10 THEN <<DigitChars[n + 1]>>
    ELSE Digits(n \div 10) \o <<DigitChars[(n % 10) + 1]>>

\* format of an integer field of an f-string
Str(n) == IF n < 0 THEN <<"-">> \o Digits(-n) ELSE Digits(n)

RECURSIVE Strip(_)
Strip(t) ==
    IF t = <<>> THEN t
    ELSE IF Head(t) = " " THEN Strip(Tail(t))
    ELSE IF t[Len(t)] = " " THEN Strip(SubSeq(t, 1, Len(t) - 1))
    ELSE t

RECURSIVE DigitsValue(_)
DigitsValue(t) ==
    IF t = <<>> THEN 0
    ELSE 10 * DigitsValue(SubSeq(t, 1, Len(t) - 1)) + DigitValue(t[Len(t)])

\* int(text) of texts over digits, signs and blanks: [ok, val]; ok = FALSE
\* is ValueError
ParseInt(text) ==
    LET t == Strip(text)
        signed == t # <<>> /\ Head(t) \in {"+", "-"}
        body == IF signed THEN Tail(t) ELSE t
    IN  IF body # <<>> /\ \A k \in 1..Len(body) : IsDigit(body[k])
        THEN [ok |-> TRUE,
              val |-> IF signed /\ Head(t) = "-" THEN -DigitsValue(body)
                      ELSE DigitsValue(body)]
        ELSE [ok |-> FALSE, val |-> 0]

-----------------------------------------------------------------------------
(* The file system *)

RegularPath == <<"a.txt">>
MissingPath == <<"missing.txt">>
DeniedPath == <<"secret.txt">>
DirPath == <<"dir">>
BinaryPath == <<"bin.dat">>

Paths == {RegularPath, MissingPath, DeniedPath, DirPath, BinaryPath}

File(kind, data) == [kind |-> kind, data |-> data]

FileSystems ==
    {[p \in Paths |->
        IF p = RegularPath THEN File("regular", d)
        ELSE IF p = MissingPath THEN File("missing", <<>>)
        ELSE IF p = DeniedPath THEN File("denied", <<>>)
        ELSE IF p = DirPath THEN File("directory", <<>>)
        ELSE File("undecodable", <<>>)] : d \in Texts(FileChars, MaxFileLen)}

\* the exception open(path, mode) raises, "" when it returns a file object
OpenError(file, mode) ==
    IF file.kind = "directory" THEN "IsADirectoryError"
    ELSE IF file.kind = "denied" THEN "PermissionError"
    ELSE IF file.kind = "missing" /\ mode = "r" THEN "FileNotFoundError"
    ELSE ""

\* the file after open(path, mode): the writing modes create and truncate
FileAfterOpen(file, mode) ==
    IF OpenError(file, mode) # "" THEN file
    ELSE IF mode \in {"w", "w+"} THEN File("regular", <<>>)
    ELSE file

NoFile == [opened |-> FALSE, closed |-> FALSE, path |-> <<>>, pos |-> 0]

FileObject(path) == [opened |-> TRUE, closed |-> FALSE, path |-> path, pos |-> 0]

\* str.splitlines(keepends) as readlines() does it, on "\n"
RECURSIVE SplitLines(_, _)
SplitLines(data, cur) ==
    IF data = <<>> THEN (IF cur = <<>> THEN <<>> ELSE <<cur>>)
    ELSE IF Head(data) = "\n"
         THEN <<cur \o <<"\n">>>> \o SplitLines(Tail(data), <<>>)
         ELSE SplitLines(Tail(data), cur \o <<Head(data)>>)

\* f.readlines(): the lines from the position of the file object to the end
readlines(file, fobj) ==
    SplitLines(SubSeq(file.data, fobj.pos + 1, Len(file.data)), <<>>)

-----------------------------------------------------------------------------
(* Command lines *)

ProgramName == <<"read_lines.py">>

StartTokens == {<<"0">>, <<"1">>, <<"+", "2">>, <<"3">>, <<"5">>,
                <<"-", "1">>, <<"-", "7">>, <<"x">>}

CountTokens == {<<"0">>, <<"1">>, <<"3">>, <<"-", "1">>, <<"x">>}

ExtraTokens == {<<"9">>}

Extras == Texts(ExtraTokens, MaxExtra)

CommandLines ==
    {<<ProgramName>>}
    \cup {<<ProgramName, p>> : p \in Paths}
    \cup {<<ProgramName, p, s>> : p \in Paths, s \in StartTokens}
    \cup {<<ProgramName, p, s, c>> \o e :
            p \in Paths, s \in StartTokens, c \in CountTokens, e \in Extras}

-----------------------------------------------------------------------------
(* The program *)

\* slip: the file opened for writing and reading, which truncates it
ModeTruncating == "w+"

Mode == "r"

UsageMsg == <<"Usage: python read_lines.py <filepath> <start_line> <num_lines>">>

BeyondMsg(s) == <<"Start line ">> \o Str(s) \o <<" is beyond file length.">>

NotFoundMsg(path) == <<"File ">> \o path \o <<" not found.">>

\* print(text, end=end)
print(out, text, end) == out \o text \o end

\* slip: the count taken from the last argument, sys.argv[-1]
ArgFromEnd(k) == IF k = 3 THEN argv[Len(argv)] ELSE argv[k + 1]

\* sys.argv[k]
Arg(k) == argv[k + 1]

\* slip: the 1-indexed start line used as the index
StartIndexOneOff(s) == s

StartIndex(s) == s - 1

EndIndex(si, n) == si + n

\* slip: > for >=
BeyondLengthStrict(si, ls) == si > Len(ls)

BeyondLength(si, ls) == si >= Len(ls)

\* range(start, stop) still has the value j to give
InRange(j, stop) == j < stop

\* list indexing: ls[j] is defined for -len <= j < len
IndexOk(ls, j) == -Len(ls) <= j /\ j < Len(ls)

Position(ls, j) == IF j < 0 THEN Len(ls) + j + 1 ELSE j + 1

Item(ls, j) == ls[Position(ls, j)]

\* slip: no handler
CatchesNothing(e) == FALSE

\* slip: the clause "except OSError"
CatchesOSError(e) ==
    e \in {"FileNotFoundError", "PermissionError", "IsADirectoryError"}

\* the clause "except FileNotFoundError"
Catches(e) == e = "FileNotFoundError"

\* slip: f.close() as the last statement of the block, no with statement
CloseAtEnd(fobj, e) == IF e = "" THEN [fobj EXCEPT !.closed = TRUE] ELSE fobj

\* the with statement leaving its block: it closes the file object,
\* whether the block ended, returned or raised
WithExit(fobj, e) == [fobj EXCEPT !.closed = TRUE]

Fresh ==
    /\ called = 0
    /\ filepath = <<>> /\ start_line = 0 /\ num_lines = 0
    /\ f = NoFile /\ lines = <<>> /\ start_index = 0 /\ end_index = 0
    /\ i = 0 /\ emitted = <<>> /\ exc = "" /\ stdout = <<>>
    /\ status = "running" /\ pc = "main"

Init ==
    /\ fs \in FileSystems
    /\ argv \in CommandLines
    /\ run = 1
    /\ prev = [run |-> 0, argv |-> <<>>, fs0 |-> fs, stdout |-> <<>>, status |-> ""]
    /\ Fresh

\* line 21-22: too few arguments
MainUsage ==
    /\ pc = "main"
    /\ Len(argv) < 3
    /\ stdout' = print(stdout, UsageMsg, <<"\n">>)
    /\ status' = "0"
    /\ pc' = "exit"
    /\ UNCHANGED <<fs, argv, called, locals, f, i, emitted, exc, run, prev>>

\* the exception the evaluation of the arguments of the call raises, if any
ArgFault ==
    IF ~ParseInt(Arg(2)).ok THEN "ValueError"
    ELSE IF Len(argv) < 4 THEN "IndexError"
    ELSE IF ~ParseInt(Arg(3)).ok THEN "ValueError"
    ELSE ""

\* line 24: an argument is missing or is no integer; nothing catches it
MainFault ==
    /\ pc = "main"
    /\ ~(Len(argv) < 3)
    /\ ArgFault # ""
    /\ status' = ArgFault
    /\ pc' = "exit"
    /\ UNCHANGED <<fs, argv, called, locals, f, i, emitted, exc, stdout, run, prev>>

\* line 24: the call of read_lines
MainCall ==
    /\ pc = "main"
    /\ ~(Len(argv) < 3)
    /\ ArgFault = ""
    /\ filepath' = Arg(1)
    /\ start_line' = ParseInt(Arg(2)).val
    /\ num_lines' = ParseInt(Arg(3)).val
    /\ called' = called + 1
    /\ pc' = "open"
    /\ UNCHANGED <<fs, argv, f, lines, start_index, end_index, i, emitted, exc,
                   stdout, status, run, prev>>

\* line 6: open(filepath, 'r') returns a file object
Open ==
    /\ pc = "open"
    /\ OpenError(fs[filepath], Mode) = ""
    /\ fs' = [fs EXCEPT ![filepath] = FileAfterOpen(@, Mode)]
    /\ f' = FileObject(filepath)
    /\ pc' = "readlines"
    /\ UNCHANGED <<argv, called, locals, i, emitted, exc, stdout, status, run, prev>>

\* line 6: open raises; no file object exists, the try statement has it
OpenFail ==
    /\ pc = "open"
    /\ OpenError(fs[filepath], Mode) # ""
    /\ exc' = OpenError(fs[filepath], Mode)
    /\ pc' = "except"
    /\ UNCHANGED <<fs, argv, called, locals, f, i, emitted, stdout, status, run, prev>>

\* lines 7-9: the file is read whole and the indices are computed
ReadLines ==
    /\ pc = "readlines"
    /\ fs[f.path].kind = "regular"
    /\ lines' = readlines(fs[f.path], f)
    /\ f' = [f EXCEPT !.pos = Len(fs[f.path].data)]
    /\ start_index' = StartIndex(start_line)
    /\ end_index' = EndIndex(StartIndex(start_line), num_lines)
    /\ pc' = "check"
    /\ UNCHANGED <<fs, argv, called, filepath, start_line, num_lines, i, emitted,
                   exc, stdout, status, run, prev>>

\* line 7: the bytes of the file are no text
ReadFail ==
    /\ pc = "readlines"
    /\ fs[f.path].kind = "undecodable"
    /\ exc' = "UnicodeDecodeError"
    /\ pc' = "with_exit"
    /\ UNCHANGED <<fs, argv, called, locals, f, i, emitted, stdout, status, run, prev>>

\* lines 11-13: the start line is beyond the file
Beyond ==
    /\ pc = "check"
    /\ BeyondLength(start_index, lines)
    /\ stdout' = print(stdout, BeyondMsg(start_line), <<"\n">>)
    /\ pc' = "with_exit"
    /\ UNCHANGED <<fs, argv, called, locals, f, i, emitted, exc, status, run, prev>>

\* line 15: the loop starts
LoopStart ==
    /\ pc = "check"
    /\ ~BeyondLength(start_index, lines)
    /\ i' = start_index
    /\ pc' = "loop"
    /\ UNCHANGED <<fs, argv, called, locals, f, emitted, exc, stdout, status, run, prev>>

\* lines 15-16: one iteration
PrintLine ==
    /\ pc = "loop"
    /\ InRange(i, Min(end_index, Len(lines)))
    /\ IndexOk(lines, i)
    /\ stdout' = print(stdout, Item(lines, i), <<>>)
    /\ emitted' = Append(emitted, Position(lines, i))
    /\ i' = i + 1
    /\ UNCHANGED <<fs, argv, pc, called, locals, f, exc, status, run, prev>>

\* line 16: lines[i] of an index before the list
LineFault ==
    /\ pc = "loop"
    /\ InRange(i, Min(end_index, Len(lines)))
    /\ ~IndexOk(lines, i)
    /\ exc' = "IndexError"
    /\ pc' = "with_exit"
    /\ UNCHANGED <<fs, argv, called, locals, f, i, emitted, stdout, status, run, prev>>

\* line 15: the range is exhausted
LoopEnd ==
    /\ pc = "loop"
    /\ ~InRange(i, Min(end_index, Len(lines)))
    /\ pc' = "with_exit"
    /\ UNCHANGED <<fs, argv, called, locals, f, i, emitted, exc, stdout, status, run, prev>>

\* line 6: the with statement is left without an exception; read_lines
\* returns to line 24 and the program ends
Leave ==
    /\ pc = "with_exit"
    /\ exc = ""
    /\ f' = WithExit(f, exc)
    /\ status' = "0"
    /\ pc' = "exit"
    /\ UNCHANGED <<fs, argv, called, locals, i, emitted, exc, stdout, run, prev>>

\* line 6: the with statement is left by an exception
LeaveRaising ==
    /\ pc = "with_exit"
    /\ exc # ""
    /\ f' = WithExit(f, exc)
    /\ pc' = "except"
    /\ UNCHANGED <<fs, argv, called, locals, i, emitted, exc, stdout, status, run, prev>>

\* lines 17-18: the handler
Handle ==
    /\ pc = "except"
    /\ Catches(exc)
    /\ stdout' = print(stdout, NotFoundMsg(filepath), <<"\n">>)
    /\ exc' = ""
    /\ status' = "0"
    /\ pc' = "exit"
    /\ UNCHANGED <<fs, argv, called, locals, f, i, emitted, run, prev>>

\* line 17: no clause matches; the exception leaves read_lines and the program
Propagate ==
    /\ pc = "except"
    /\ ~Catches(exc)
    /\ status' = exc
    /\ pc' = "exit"
    /\ UNCHANGED <<fs, argv, called, locals, f, i, emitted, exc, stdout, run, prev>>

\* the first three arguments of a command line
FirstThree(av) == SubSeq(av, 1, Min(4, Len(av)))

\* the program is started again, on the same arguments or on the first three
Reinvoke ==
    /\ pc = "exit"
    /\ run < MaxRuns
    /\ prev' = [run |-> run, argv |-> argv, fs0 |-> prev.fs0, stdout |-> stdout,
                status |-> status]
    /\ run' = run + 1
    /\ argv' \in {argv, FirstThree(argv)}
    /\ called' = 0
    /\ filepath' = <<>> /\ start_line' = 0 /\ num_lines' = 0
    /\ f' = NoFile /\ lines' = <<>> /\ start_index' = 0 /\ end_index' = 0
    /\ i' = 0 /\ emitted' = <<>> /\ exc' = "" /\ stdout' = <<>>
    /\ status' = "running" /\ pc' = "main"
    /\ UNCHANGED fs

Next ==
    \/ MainUsage \/ MainFault \/ MainCall
    \/ Open \/ OpenFail
    \/ ReadLines \/ ReadFail
    \/ Beyond \/ LoopStart
    \/ PrintLine \/ LineFault \/ LoopEnd
    \/ Leave \/ LeaveRaising
    \/ Handle \/ Propagate
    \/ Reinvoke

Spec == Init /\ [][Next]_vars

-----------------------------------------------------------------------------
(* Properties *)

\* the process has ended after one call of read_lines
Returned == pc = "exit" /\ called = 1

\* the lines of the file the call was given
FileLines == SplitLines(fs[filepath].data, <<>>)

IsRegular == fs[filepath].kind = "regular"

\* the number of lines the call has to print: min(c, N - s + 1)
Due == Min(num_lines, Len(FileLines) - start_line + 1)

\* C1: on a file of N lines, with 1 <= s <= N and c >= 0, read_lines prints
\* exactly min(c, N - s + 1) lines, the lines s .. s + min(c, N - s + 1) - 1
\* of the file in file order, each verbatim and nothing between them (so
\* nothing at all when c = 0), and no diagnostic.
C1_RangeOutput ==
    (Returned /\ IsRegular /\ start_line \in 1..Len(FileLines) /\ num_lines >= 0)
    => /\ Len(emitted) = Due
       /\ emitted = [k \in 1..Due |-> start_line + k - 1]
       /\ stdout = Flatten(SubSeq(FileLines, start_line, start_line + Due - 1))

C1_Witness ==
    /\ Returned /\ IsRegular
    /\ Len(FileLines) = 3 /\ start_line = 2 /\ num_lines = 3
    /\ emitted = <<2, 3>>
    /\ stdout = FileLines[2] \o FileLines[3]

\* C2: on an existing file of N lines (N = 0 included) and a start line
\* s > N, whatever the count, read_lines prints the one diagnostic
\* "Start line {s} is beyond file length.", no line of the file, and
\* returns normally.
C2_BeyondLength ==
    (Returned /\ IsRegular /\ start_line > Len(FileLines))
    => /\ stdout = <<"Start line ">> \o Str(start_line)
                   \o <<" is beyond file length.", "\n">>
       /\ emitted = <<>>
       /\ status = "0"

C2_Witness ==
    /\ Returned /\ IsRegular
    /\ fs[filepath].data = <<>> /\ start_line = 1
    /\ stdout = <<"Start line ", "1", " is beyond file length.", "\n">>
    /\ status = "0"

\* C3: on a path that does not exist, read_lines prints the one diagnostic
\* "File {path} not found." for every s and c, no file content, no range
\* diagnostic, and returns normally.
C3_NotFound ==
    (Returned /\ fs[filepath].kind = "missing")
    => /\ stdout = <<"File ">> \o filepath \o <<" not found.", "\n">>
       /\ emitted = <<>>
       /\ status = "0"

C3_Witness ==
    /\ Returned
    /\ filepath = MissingPath /\ start_line = 1 /\ num_lines = 1
    /\ stdout = <<"File ", "missing.txt", " not found.", "\n">>
    /\ status = "0"

\* C4: with fewer than 3 arguments after the program name (0, 1 or 2) the
\* program prints the usage message and does nothing else: no call of
\* read_lines, no file opened, no other output, no crash.
C4_UsageBelowThree ==
    (pc = "exit" /\ Len(argv) - 1 < 3)
    => /\ stdout = UsageMsg \o <<"\n">>
       /\ called = 0
       /\ ~f.opened
       /\ status = "0"

\* C5: with 3 or more arguments the program uses the first three only: the
\* output and the outcome of an invocation with extra arguments are those
\* of the invocation with exactly its first three arguments.
C5_ExtrasIgnored ==
    (pc = "exit" /\ prev.run > 0 /\ Len(prev.argv) > 4
        /\ argv = SubSeq(prev.argv, 1, 4))
    => /\ stdout = prev.stdout
       /\ status = prev.status

C5_Witness ==
    /\ pc = "exit" /\ prev.run > 0
    /\ Len(prev.argv) = 5 /\ argv = SubSeq(prev.argv, 1, 4)
    /\ emitted = <<1, 2, 3>>
    /\ stdout = prev.stdout /\ stdout # <<>>
    /\ status = "0"

\* one of the paths the documentation describes
Documented ==
    \/ Len(argv) - 1 < 3
    \/ /\ called = 1
       /\ \/ fs[filepath].kind = "missing"
          \/ IsRegular /\ start_line > Len(FileLines)
          \/ IsRegular /\ start_line \in 1..Len(FileLines) /\ num_lines >= 0

\* C6: every documented path (usage with fewer than 3 arguments, file not
\* found, start line beyond the length, normal line output) ends normally,
\* with a success indication and no raised exception.
C6_DocumentedPathsSucceed ==
    (pc = "exit" /\ Documented) => status = "0"

Unopenable == fs[filepath].kind \in {"denied", "directory"}

\* C7: on a path that exists but cannot be opened (permission denied, a
\* directory) read_lines prints "File {filePath} not found." and returns
\* without raising, exactly as for a path that does not exist.
C7_UnopenableAsNotFound ==
    (Returned /\ Unopenable)
    => /\ stdout = <<"File ">> \o filepath \o <<" not found.", "\n">>
       /\ status = "0"

\* C7, amended: on a path that exists but cannot be opened read_lines
\* prints nothing, and the error of open (PermissionError, IsADirectoryError)
\* leaves read_lines uncaught and ends the program.
C7_UnopenablePropagates ==
    (Returned /\ Unopenable)
    => /\ stdout = <<>>
       /\ ~f.opened
       /\ status = IF fs[filepath].kind = "denied" THEN "PermissionError"
                   ELSE "IsADirectoryError"

C7_Witness ==
    /\ Returned
    /\ filepath = DeniedPath
    /\ stdout = <<>>
    /\ status = "PermissionError"

\* C8: two invocations on the same arguments, the file not modified in
\* between, give the same output and the same outcome, and the first leaves
\* the files as they were.
C8_Idempotent ==
    (pc = "exit" /\ prev.run > 0 /\ argv = prev.argv)
    => /\ stdout = prev.stdout
       /\ status = prev.status
       /\ fs = prev.fs0

C8_Witness ==
    /\ Returned /\ prev.run > 0 /\ argv = prev.argv
    /\ IsRegular /\ emitted = <<1, 2, 3>>
    /\ stdout = prev.stdout /\ stdout = Flatten(FileLines)
    /\ fs = prev.fs0

\* C9: the file object read_lines opened is closed on every way out of the
\* with statement: after the line output, after the early return of the
\* range check and after an exception of the read.
C9_HandleReleased ==
    (pc \in {"except", "exit"}) => (f.opened => f.closed)

C9_Witness ==
    /\ pc = "exit"
    /\ status = "UnicodeDecodeError"
    /\ f.opened /\ f.closed

\* C10: for every integer start line, zero and negative ones included, and
\* every count, the printed lines are a contiguous run of the file in file
\* order, with no wrap from the end of the file to its beginning, and every
\* printed line is at a position p with
\* start_line <= p <= start_line + count - 1.
C10_ContiguousInRange ==
    /\ \A k \in 1..(Len(emitted) - 1) : emitted[k + 1] = emitted[k] + 1
    /\ \A k \in 1..Len(emitted) :
          start_line <= emitted[k] /\ emitted[k] <= start_line + num_lines - 1

====
